---- MODULE Spec2Model ----
(***************************************************************************)
(* The contact ledger (lead_tracker.py) and the dispatch client            *)
(* (send_whatsapp.py) of nanobot, as a state machine.                      *)
(*                                                                         *)
(* A phone number is a sequence of one-character strings, so that both     *)
(* normalizers are computed character by character as the code does.       *)
(* Names, sources, statuses and notes are opaque strings; only their       *)
(* emptiness is ever tested by the code.  A timestamp is the reading of    *)
(* the wall clock, an integer.                                             *)
(***************************************************************************)
EXTENDS Integers, Sequences, FiniteSets, TLC

VARIABLES
    store,      \* the persisted file at db_path
    clock,      \* the latest reading datetime.now() has returned
    last,       \* the latest ledger call: its name, arguments and outcome
    outbox,     \* the send requests the bridge has received, oldest first
    campaign,   \* the caller's position in an outreach step
    attempt,    \* the call of SendWhatsAppTool.execute in progress
    race        \* two processes running the tracker script on one file

vars == <<store, clock, last, outbox, campaign, attempt, race>>

----------------------------------------------------------------------------
(* Bounds of the model.                                                    *)

MaxLeads == 2       \* add_lead appends only while the ledger is shorter
MaxClock == 1       \* the clock's readings are 0..MaxClock

(* Program constants.                                                      *)

MinDigits == 7
MaxDigits == 15

----------------------------------------------------------------------------
(* Strings.                                                                *)

Digit == {"0", "1", "2", "3", "4", "5", "6", "7", "8", "9"}

Rep(c, n) == [i \in 1..n |-> c]

\* "".join(c for c in s if c.isdigit()), and re.sub(r"[^\d]", "", s)
IsDigit(c) == c \in Digit
DigitsOf(s) == SelectSeq(s, IsDigit)

\* lead_tracker._normalize_phone: the comparison key
NormalizePhone(phone) ==
    IF Len(phone) > 0 /\ Head(phone) = "+"
    THEN <<"+">> \o DigitsOf(Tail(phone))
    ELSE DigitsOf(phone)

\* SendWhatsAppTool._normalize_phone: digits only
DispatchDigits(phone) == DigitsOf(phone)

\* SendWhatsAppTool._phone_to_jid: f"{digits}@s.whatsapp.net"
JidSuffix == <<"@", "s", ".", "w", "h", "a", "t", "s", "a", "p", "p", ".", "n", "e", "t">>
PhoneToJid(phone) == DigitsOf(phone) \o JidSuffix

----------------------------------------------------------------------------
(* Inputs.                                                                 *)

Ones == Rep("1", MinDigits)

Plain == Ones                                    \* "1111111"
Plus == <<"+">> \o Ones                          \* "+1111111"
Dashed == SubSeq(Ones, 1, 3) \o <<"-">> \o SubSeq(Ones, 4, MinDigits)  \* "111-1111"

\* Two spellings of one comparison key (Plain, Dashed), and two comparison
\* keys with one routable address (Plain, Plus).
Phones == {Plus, Plain, Dashed}

\* the add calls the caller makes: (phone, name, source, message)
AddCalls ==
    { [phone |-> Plus, name |-> "Test Biz", source |-> "reddit", message |-> "intro"],
      [phone |-> Plus, name |-> "Joe's Pizza", source |-> "maps", message |-> "followup"],
      [phone |-> Plain, name |-> "Test Biz", source |-> "reddit", message |-> "intro"],
      [phone |-> Dashed, name |-> "Joe's Pizza", source |-> "maps", message |-> "followup"] }

StatusArgs == {"", "responded"}
NotesArgs == {"", "called back"}
ListFilters == {"", "contacted", "responded"}

----------------------------------------------------------------------------
(* The persisted file and the JSON values it can hold.                     *)
(*                                                                         *)
(* An element of a JSON list is a dict (a function from its keys to their  *)
(* values) or something that is no dict (a number).                        *)

Dict(d) == [t |-> "dict", d |-> d]
JNumber == [t |-> "number", d |-> [k \in {} |-> ""]]

IsDict(x) == x.t = "dict"
Has(x, k) == IsDict(x) /\ k \in DOMAIN x.d
\* x.get(k, default)
Get(x, k, default) == IF k \in DOMAIN x.d THEN x.d[k] ELSE default
\* x[k] = v
SetKey(x, k, v) ==
    Dict([f \in (DOMAIN x.d) \cup {k} |-> IF f = k THEN v ELSE x.d[f]])

\* the file's possible contents
Absent      == [kind |-> "absent",     items |-> <<>>]   \* no file
Unreadable  == [kind |-> "unreadable", items |-> <<>>]   \* read raises OSError
BadJson     == [kind |-> "badjson",    items |-> <<>>]   \* not JSON
BadUtf8     == [kind |-> "badutf8",    items |-> <<>>]   \* not UTF-8
JNull       == [kind |-> "null",       items |-> <<>>]   \* the JSON text null
JEmptyDict  == [kind |-> "emptydict",  items |-> <<>>]   \* the JSON text {}
JList(xs)   == [kind |-> "list",       items |-> xs]     \* a JSON list

\* _load: what it returns (a JSON value), or the exception it lets through
Returned(v) == [raised |-> FALSE, exc |-> "", value |-> v]
Raised(e)   == [raised |-> TRUE,  exc |-> e,  value |-> JList(<<>>)]

Load(s) ==
    CASE s.kind = "absent" -> Returned(JList(<<>>))                 \* line 26-27
      [] s.kind \in {"unreadable", "badjson"} -> Returned(JList(<<>>)) \* line 30-31
      [] s.kind = "badutf8" -> Raised("UnicodeDecodeError")         \* line 29
      [] OTHER -> Returned(s)                                       \* line 29

\* _save: the file is rewritten in full
Save(leads) == JList(leads)

----------------------------------------------------------------------------
(* The outcome of a ledger call: the status line it returns, by its tag    *)
(* and the values formatted into it, or the exception it raises.           *)

Raise(e) == [tag |-> "RAISE", exc |-> e]
Added(phone, name, source) ==
    [tag |-> "OK_ADDED", phone |-> phone, name |-> name, source |-> source]
Duplicate(phone, date_added) ==
    [tag |-> "DUPLICATE", phone |-> phone, date_added |-> date_added]
Found(lead) ==
    [tag |-> "FOUND", phone |-> lead.d.phone, name |-> lead.d.name,
     status |-> lead.d.status, source |-> lead.d.source,
     date_added |-> lead.d.date_added]
NotFound(phone) == [tag |-> "NOT_FOUND", phone |-> phone]
Updated(phone, status) == [tag |-> "OK_UPDATED", phone |-> phone, status |-> status]
NoLeadsFound == [tag |-> "NO_LEADS_FOUND"]
NoLeadsYet == [tag |-> "NO_LEADS_YET"]

\* what a call leaves behind: the file, the clock's latest reading, the outcome
Outcome(s, c, r) == [store |-> s, clock |-> c, result |-> r]

----------------------------------------------------------------------------
(* The scan all of add, check and update make:                             *)
(*     for lead in leads: if _normalize_phone(lead["phone"]) == norm: ...  *)
(* stops at the first element that matches, or that cannot be subscripted  *)
(* with "phone".  0 when the loop runs to its end.                         *)

Min(S) == CHOOSE i \in S : \A j \in S : i <= j

\* the first of the places S, 0 when there is none
FirstIn(S) == IF S = {} THEN 0 ELSE Min(S)

\* a variant that compares the phone as stored, not its comparison key
MatchesAsEntered(lead, norm) == lead.d.phone = norm

Matches(lead, norm) == NormalizePhone(lead.d.phone) = norm

\* a variant whose loop leaves out the last element
FirstStopShort(items, norm) ==
    FirstIn({ i \in 1..(Len(items) - 1) :
                \/ ~Has(items[i], "phone")
                \/ Matches(items[i], norm) })

FirstStop(items, norm) ==
    FirstIn({ i \in 1..Len(items) :
                \/ ~Has(items[i], "phone")
                \/ Matches(items[i], norm) })

\* the exception lead[k] raises, "" when it raises none
SubscriptError(lead, k) ==
    IF ~IsDict(lead) THEN "TypeError"
    ELSE IF k \notin DOMAIN lead.d THEN "KeyError"
    ELSE ""

\* the first of the subscripts ks (in order) that raises on lead, "" when none
RECURSIVE FirstError(_, _)
FirstError(lead, ks) ==
    IF ks = <<>> THEN ""
    ELSE IF SubscriptError(lead, Head(ks)) # "" THEN SubscriptError(lead, Head(ks))
    ELSE FirstError(lead, Tail(ks))

----------------------------------------------------------------------------
(* add_lead                                                                *)

\* a variant that keeps the comparison key in place of the phone as entered
NewLeadKeyAsPhone(phone, norm, name, source, message, t1, t2) ==
    Dict([phone |-> norm, phone_normalized |-> norm, name |-> name,
          source |-> source, message_type |-> message, status |-> "contacted",
          date_added |-> t1, date_updated |-> t2, notes |-> ""])

NewLead(phone, norm, name, source, message, t1, t2) ==
    Dict([phone |-> phone, phone_normalized |-> norm, name |-> name,
          source |-> source, message_type |-> message, status |-> "contacted",
          date_added |-> t1, date_updated |-> t2, notes |-> ""])

\* t1 and t2 are the two readings of the clock lines 64 and 65 take
AddLead(s, now, phone, name, source, message, t1, t2) ==
    LET ld   == Load(s)
        v    == ld.value
        norm == NormalizePhone(phone)
        i    == FirstStop(v.items, norm)
    IN  IF ld.raised THEN Outcome(s, now, Raise(ld.exc))
        ELSE IF v.kind = "null" THEN Outcome(s, now, Raise("TypeError"))
        ELSE IF v.kind = "emptydict" THEN Outcome(s, now, Raise("AttributeError"))
        ELSE IF i = 0
        THEN Outcome(Save(Append(v.items,
                          NewLead(phone, norm, name, source, message, t1, t2))),
                     t2, Added(phone, name, source))
        ELSE LET e == FirstError(v.items[i], <<"phone", "date_added">>)
             IN  IF e # "" THEN Outcome(s, now, Raise(e))
                 ELSE Outcome(s, now, Duplicate(phone, v.items[i].d.date_added))

----------------------------------------------------------------------------
(* check_lead                                                              *)

CheckLead(s, now, phone) ==
    LET ld   == Load(s)
        v    == ld.value
        norm == NormalizePhone(phone)
        i    == FirstStop(v.items, norm)
    IN  IF ld.raised THEN Outcome(s, now, Raise(ld.exc))
        ELSE IF v.kind = "null" THEN Outcome(s, now, Raise("TypeError"))
        ELSE IF i = 0 THEN Outcome(s, now, NotFound(phone))
        ELSE LET e == FirstError(v.items[i],
                        <<"phone", "name", "status", "source", "date_added">>)
             IN  IF e # "" THEN Outcome(s, now, Raise(e))
                 ELSE Outcome(s, now, Found(v.items[i]))

----------------------------------------------------------------------------
(* update_lead                                                             *)

\* a variant that overwrites status whether or not one was supplied
UpdateFieldsAlways(lead, status, notes, t) ==
    LET l1 == SetKey(lead, "status", status)
        l2 == IF notes # "" THEN SetKey(l1, "notes", notes) ELSE l1
    IN  SetKey(l2, "date_updated", t)

\* a variant that stamps date_added as well
UpdateFieldsRestamp(lead, status, notes, t) ==
    LET l1 == IF status # "" THEN SetKey(lead, "status", status) ELSE lead
        l2 == IF notes # "" THEN SetKey(l1, "notes", notes) ELSE l1
    IN  SetKey(SetKey(l2, "date_updated", t), "date_added", t)

\* a variant that leaves date_updated as it was
UpdateFieldsNoStamp(lead, status, notes, t) ==
    LET l1 == IF status # "" THEN SetKey(lead, "status", status) ELSE lead
    IN  IF notes # "" THEN SetKey(l1, "notes", notes) ELSE l1

\* lines 94-98 on the matched record; t is the clock's reading at line 98
UpdateFields(lead, status, notes, t) ==
    LET l1 == IF status # "" THEN SetKey(lead, "status", status) ELSE lead
        l2 == IF notes # "" THEN SetKey(l1, "notes", notes) ELSE l1
    IN  SetKey(l2, "date_updated", t)

UpdateLead(s, now, phone, status, notes, t) ==
    LET ld   == Load(s)
        v    == ld.value
        norm == NormalizePhone(phone)
        i    == FirstStop(v.items, norm)
    IN  IF ld.raised THEN Outcome(s, now, Raise(ld.exc))
        ELSE IF v.kind = "null" THEN Outcome(s, now, Raise("TypeError"))
        ELSE IF i = 0 THEN Outcome(s, now, NotFound(phone))
        ELSE IF SubscriptError(v.items[i], "phone") # ""
        THEN Outcome(s, now, Raise(SubscriptError(v.items[i], "phone")))
        ELSE LET lead  == UpdateFields(v.items[i], status, notes, t)
                 saved == Save([v.items EXCEPT ![i] = lead])
             IN  \* the file is saved (line 99) before line 100 reads lead['status']
                 IF SubscriptError(lead, "status") # ""
                 THEN Outcome(saved, t, Raise(SubscriptError(lead, "status")))
                 ELSE Outcome(saved, t, Updated(phone, lead.d.status))

----------------------------------------------------------------------------
(* list_leads                                                              *)

\* a variant whose filter lets through every record that has a status
StatusIsAny(l, status) == "status" \in DOMAIN l.d

\* l.get("status") == status
StatusIs(l, status) == "status" \in DOMAIN l.d /\ l.d.status = status

\* one numbered line of the listing (lines 115-119)
Summary(l) ==
    [phone |-> l.d.phone, name |-> Get(l, "name", "?"),
     status |-> Get(l, "status", "?"), source |-> Get(l, "source", "?"),
     date_added |-> Get(l, "date_added", "?")]

Listing(leads) ==
    [tag |-> "LIST", total |-> Len(leads),
     lines |-> [i \in 1..Len(leads) |-> Summary(leads[i])]]

\* the first element that is no dict, 0 when all are
FirstNonDict(leads) == FirstIn({ i \in 1..Len(leads) : ~IsDict(leads[i]) })

\* the first element that l['phone'] raises on, 0 when there is none
FirstNoPhone(leads) ==
    FirstIn({ i \in 1..Len(leads) : SubscriptError(leads[i], "phone") # "" })

ListLeads(s, now, status) ==
    LET ld == Load(s)
        v  == ld.value
        keep(l) == StatusIs(l, status)
        leads == IF status # "" THEN SelectSeq(v.items, keep) ELSE v.items
        bad == FirstNoPhone(leads)
    IN  IF ld.raised THEN Outcome(s, now, Raise(ld.exc))
        \* line 108 iterates the loaded value and calls .get on each element
        ELSE IF status # "" /\ v.kind = "null" THEN Outcome(s, now, Raise("TypeError"))
        ELSE IF status # "" /\ FirstNonDict(v.items) # 0
        THEN Outcome(s, now, Raise("AttributeError"))
        \* line 110: None, {} and [] are all false
        ELSE IF leads = <<>> THEN Outcome(s, now, NoLeadsFound)
        ELSE IF bad # 0 THEN Outcome(s, now, Raise(SubscriptError(leads[bad], "phone")))
        ELSE Outcome(s, now, Listing(leads))

----------------------------------------------------------------------------
(* stats                                                                   *)

\* a variant that leaves out the records that lack the field
CountByPresent(leads, k) ==
    LET having == { i \in 1..Len(leads) : k \in DOMAIN leads[i].d }
    IN  [x \in { leads[i].d[k] : i \in having } |->
            Cardinality({ i \in having : leads[i].d[k] = x })]

\* by_status / by_source: every value of the field k, with its count
CountBy(leads, k) ==
    LET val(i) == Get(leads[i], k, "unknown")
    IN  [x \in { val(i) : i \in 1..Len(leads) } |->
            Cardinality({ i \in 1..Len(leads) : val(i) = x })]

Stats(s, now) ==
    LET ld == Load(s)
        v  == ld.value
    IN  IF ld.raised THEN Outcome(s, now, Raise(ld.exc))
        ELSE IF v.items = <<>> THEN Outcome(s, now, NoLeadsYet)
        ELSE IF FirstNonDict(v.items) # 0
        THEN Outcome(s, now, Raise("AttributeError"))
        ELSE Outcome(s, now,
                 [tag |-> "STATS", total |-> Len(v.items),
                  by_status |-> CountBy(v.items, "status"),
                  by_source |-> CountBy(v.items, "source")])

----------------------------------------------------------------------------
(* The record of a ledger call.                                            *)

NoPhone == <<>>

Call(op, phone, name, source, message, status, notes, result) ==
    [op |-> op, phone |-> phone, name |-> name, source |-> source,
     message |-> message, status |-> status, notes |-> notes, result |-> result]

NoCall == Call("none", NoPhone, "", "", "", "", "", [tag |-> "NONE"])

Idle == [pc |-> "idle", phone |-> NoPhone]

\* One call of SendWhatsAppTool.execute in progress: where it stands, its
\* arguments, its connection, what it has done on the network so far, the
\* seconds it has waited for the reply, the bridge's message on the wire and
\* the one it has read, the exception raised to it, and what it returned.
NoResult == [tag |-> "NONE"]

NoReply == [kind |-> "none", type |-> "", has_error |-> FALSE, error |-> ""]

NewAttempt(phone, message) ==
    [pc |-> "validating", phone |-> phone, message |-> message,
     conn |-> "none", connects |-> 0, sends |-> 0, recvs |-> 0, sent |-> <<>>,
     timer |-> 0, inbound |-> NoReply, received |-> NoReply, fault |-> "",
     result |-> NoResult]

NoAttempt == [NewAttempt(NoPhone, "") EXCEPT !.pc = "idle"]

----------------------------------------------------------------------------
(* The initial file.                                                       *)

\* elements a file written by something else can hold
ForeignItems ==
    { JNumber,
      Dict([phone |-> Ones]),
      Dict([name |-> "Test Biz"]),
      Dict([phone |-> Plus, phone_normalized |-> Plus, name |-> "Test Biz",
            message_type |-> "intro", date_added |-> 0, date_updated |-> 0,
            notes |-> ""]) }

ForeignStores ==
    {Unreadable, BadJson, BadUtf8, JNull, JEmptyDict}
        \cup { JList(<<x>>) : x \in ForeignItems }

\* Two processes running the tracker script on one file: each is between
\* calls, or has read the file (line 49 or 89) and not yet written it.
Workers == {"a", "b"}

NoWork ==
    [pc |-> "idle", call |-> NoCall, snapshot |-> Absent, done |-> NoCall,
     overlap |-> FALSE]

NoRace == [proc |-> [w \in Workers |-> NoWork], writer |-> "none"]

Fresh(s) ==
    /\ store = s
    /\ clock = 0
    /\ last = NoCall
    /\ outbox = <<>>
    /\ campaign = Idle
    /\ attempt = NoAttempt
    /\ race = NoRace

\* a new ledger: no file yet, or an empty collection
InitFresh == \E s \in {Absent, JList(<<>>)} : Fresh(s)

\* any file
Init == \E s \in {Absent, JList(<<>>)} \cup ForeignStores : Fresh(s)

----------------------------------------------------------------------------
(* The ledger's operations, one call each.                                 *)

Ledger(out, call) ==
    /\ store' = out.store
    /\ clock' = out.clock
    /\ last' = call
    /\ UNCHANGED <<outbox, campaign, attempt, race>>

\* The clock is read only on the path that appends (lines 64-65): twice, the
\* second reading no earlier than the first, neither earlier than the latest.
Add ==
    \E c \in AddCalls :
        LET phone == c.phone
            call(r) == Call("add", phone, c.name, c.source, c.message, "", "", r)
            try == AddLead(store, clock, phone, c.name, c.source, c.message,
                           clock, clock)
        IN  IF try.result.tag = "OK_ADDED"
            THEN /\ Len(try.store.items) <= MaxLeads
                 /\ \E t1 \in clock..MaxClock : \E t2 \in t1..MaxClock :
                      LET out == AddLead(store, clock, phone, c.name, c.source,
                                         c.message, t1, t2)
                      IN  Ledger(out, call(out.result))
            ELSE Ledger(try, call(try.result))

Check ==
    \E phone \in Phones :
        LET out == CheckLead(store, clock, phone)
        IN  Ledger(out, Call("check", phone, "", "", "", "", "", out.result))

\* The clock is read only when a record matches (line 98).
Update ==
    \E phone \in Phones, status \in StatusArgs, notes \in NotesArgs :
        LET call(r) == Call("update", phone, "", "", "", status, notes, r)
            try == UpdateLead(store, clock, phone, status, notes, clock)
        IN  IF try.store # store \/ try.result.tag = "OK_UPDATED"
            THEN \E t \in clock..MaxClock :
                    LET out == UpdateLead(store, clock, phone, status, notes, t)
                    IN  Ledger(out, call(out.result))
            ELSE Ledger(try, call(try.result))

List ==
    \E status \in ListFilters :
        LET out == ListLeads(store, clock, status)
        IN  Ledger(out, Call("list", NoPhone, "", "", "", status, "", out.result))

StatsCall ==
    LET out == Stats(store, clock)
    IN  Ledger(out, Call("stats", NoPhone, "", "", "", "", "", out.result))

Next == Add \/ Check \/ Update \/ List \/ StatsCall

Spec == Init /\ [][Next]_vars

SpecFresh == InitFresh /\ [][Next]_vars

----------------------------------------------------------------------------
(* SendWhatsAppTool.execute, as one call.                                  *)
(*                                                                         *)
(* What the call meets outside itself is its environment: whether the      *)
(* websockets package imports, how the connection attempt ends, whether    *)
(* the send goes through, and what comes back within the wait.             *)

BridgeUrl == "ws://localhost:3001"

\* what comes back within the wait; an "error" message may lack its reason
Replies ==
    { [kind |-> "timeout", type |-> "",       has_error |-> FALSE, error |-> ""],
      [kind |-> "closed",  type |-> "",       has_error |-> FALSE, error |-> ""],
      [kind |-> "garbage", type |-> "",       has_error |-> FALSE, error |-> ""],
      [kind |-> "json",    type |-> "sent",   has_error |-> FALSE, error |-> ""],
      [kind |-> "json",    type |-> "error",  has_error |-> TRUE,
       error |-> "not on whatsapp"],
      [kind |-> "json",    type |-> "error",  has_error |-> FALSE, error |-> ""],
      [kind |-> "json",    type |-> "status", has_error |-> FALSE, error |-> ""] }

Envs ==
    [websockets : BOOLEAN, connect : {"ok", "refused", "failed"},
     send : {"ok", "failed"}, reply : Replies]

Messages == {"Hi, quick question"}

SendRequest(jid, message) == [type |-> "send", to |-> jid, text |-> message]

\* a variant that takes only "sent" for a confirmation
ConfirmationStrict(phone, jid, reply) ==
    CASE reply.kind = "timeout" -> [tag |-> "WARNING_TIMEOUT"]
      [] reply.kind \in {"closed", "garbage"} -> [tag |-> "ERROR", detail |-> reply.kind]
      [] reply.kind = "json" /\ reply.type = "sent" ->
            [tag |-> "OK_SENT", phone |-> phone, jid |-> jid]
      [] OTHER ->
            [tag |-> "BRIDGE_ERROR",
             reason |-> IF reply.has_error THEN reply.error ELSE "unknown"]

\* the outcome of the wait for one reply (lines 77-89); a recv that raises
\* and a reply json.loads cannot parse end in the handler of lines 96-97
Confirmation(phone, jid, reply) ==
    CASE reply.kind = "timeout" -> [tag |-> "WARNING_TIMEOUT"]
      [] reply.kind \in {"closed", "garbage"} -> [tag |-> "ERROR", detail |-> reply.kind]
      [] reply.kind = "json" /\ reply.type = "sent" ->
            [tag |-> "OK_SENT", phone |-> phone, jid |-> jid]
      [] reply.kind = "json" /\ reply.type = "error" ->
            [tag |-> "BRIDGE_ERROR",
             reason |-> IF reply.has_error THEN reply.error ELSE "unknown"]
      [] OTHER -> [tag |-> "OK_DISPATCHED", phone |-> phone, jid |-> jid]

\* result: the status line returned; sent: the requests the bridge received
Execute(phone, message, env) ==
    LET digits == DispatchDigits(phone)
        jid == PhoneToJid(phone)
        done(r, sent) == [result |-> r, sent |-> sent]
    IN  IF phone = <<>> \/ message = ""
        THEN done([tag |-> "ERROR_REQUIRED"], <<>>)
        ELSE IF Len(digits) < MinDigits \/ Len(digits) > MaxDigits
        THEN done([tag |-> "ERROR_INVALID_PHONE", phone |-> phone], <<>>)
        ELSE IF ~env.websockets
        THEN done([tag |-> "ERROR_NO_WEBSOCKETS"], <<>>)
        ELSE IF env.connect = "refused"
        THEN done([tag |-> "CONNECT_FAILED", url |-> BridgeUrl], <<>>)
        ELSE IF env.connect = "failed"
        THEN done([tag |-> "ERROR", detail |-> "connect"], <<>>)
        ELSE IF env.send = "failed"
        THEN done([tag |-> "ERROR", detail |-> "send"], <<>>)
        ELSE done(Confirmation(phone, jid, env.reply),
                  <<SendRequest(jid, message)>>)

----------------------------------------------------------------------------
(* An outreach step of the caller (the agent that composes the two tools): *)
(* consult the ledger, dispatch only to a phone check does not find, then  *)
(* record the phone with add.                                              *)

CampaignCheck ==
    /\ campaign.pc = "idle"
    /\ \E phone \in Phones :
        LET out == CheckLead(store, clock, phone)
        IN  /\ last' = Call("check", phone, "", "", "", "", "", out.result)
            /\ campaign' = IF out.result.tag = "NOT_FOUND"
                           THEN [pc |-> "dispatch", phone |-> phone]
                           ELSE Idle
    /\ UNCHANGED <<store, clock, outbox, attempt, race>>

CampaignDispatch ==
    /\ campaign.pc = "dispatch"
    /\ \E message \in Messages, env \in Envs :
        outbox' = outbox \o Execute(campaign.phone, message, env).sent
    /\ campaign' = [campaign EXCEPT !.pc = "record"]
    /\ UNCHANGED <<store, clock, last, attempt, race>>

CampaignRecord ==
    /\ campaign.pc = "record"
    /\ \E c \in AddCalls, t1 \in clock..MaxClock :
        \E t2 \in t1..MaxClock :
          LET out == AddLead(store, clock, campaign.phone, c.name, c.source,
                             c.message, t1, t2)
          IN  /\ c.phone = campaign.phone
              /\ out.result.tag = "OK_ADDED" => Len(out.store.items) <= MaxLeads
              /\ store' = out.store
              /\ clock' = out.clock
              /\ last' = Call("add", campaign.phone, c.name, c.source, c.message,
                              "", "", out.result)
    /\ campaign' = Idle
    /\ UNCHANGED <<outbox, attempt, race>>

CampaignNext == CampaignCheck \/ CampaignDispatch \/ CampaignRecord

SpecCampaign == InitFresh /\ [][CampaignNext]_vars

----------------------------------------------------------------------------
(* Properties of the ledger.                                               *)

Records == store.items

\* the comparison key of a phone as entered
KeyOf(phone) == NormalizePhone(phone)

\* the places of the records whose comparison key is that of phone
PlacesOf(items, phone) ==
    { i \in 1..Len(items) : KeyOf(items[i].d.phone) = KeyOf(phone) }

\* C1: from an empty or absent store, whatever add, check, update, list and
\* stats calls one writer makes, no two records of the ledger have the same
\* comparison key, and each record's phone_normalized is that key.
C1_UniqueKeys ==
    /\ \A i \in 1..Len(Records) :
          Records[i].d.phone_normalized = KeyOf(Records[i].d.phone)
    /\ \A i, j \in 1..Len(Records) :
          i # j => Records[i].d.phone_normalized # Records[j].d.phone_normalized

\* a ledger of two records that has just rejected a third add
C1_Witness ==
    /\ Len(Records) = 2
    /\ last.op = "add"
    /\ last.result.tag = "DUPLICATE"

\* C2: an add whose phone has the comparison key of a record already in the
\* ledger, however the phone is spelled and whatever name, source and message
\* it carries, returns Duplicate with that record's date_added and leaves the
\* file exactly as it was.
C2_DuplicateRejected ==
    [][ \A i \in 1..Len(Records) :
          (last'.op = "add" /\ KeyOf(Records[i].d.phone) = KeyOf(last'.phone))
             => /\ last'.result = Duplicate(last'.phone, Records[i].d.date_added)
                /\ store' = store ]_vars

\* a duplicate add that spells the phone otherwise than the record does and
\* carries another name and source, of a record whose two timestamps differ
C2_Witness ==
    /\ last.op = "add"
    /\ last.result.tag = "DUPLICATE"
    /\ \E i \in PlacesOf(Records, last.phone) :
          /\ Records[i].d.phone # last.phone
          /\ Records[i].d.name # last.name
          /\ Records[i].d.source # last.source
          /\ Records[i].d.date_updated > Records[i].d.date_added
          /\ last.result.date_added = Records[i].d.date_added

\* C3: when the caller dispatches only to a phone that check does not find
\* and records the phone with add after each dispatch, no routable address is
\* sent a send request twice.
C3_NoAddressSentTwice ==
    \A i, j \in 1..Len(outbox) : i # j => outbox[i].to # outbox[j].to

\* C4: a check of the phone an add has just added returns Found with the
\* phone, name and source that were added and status "contacted"; a check of
\* a phone whose comparison key no record has returns NotFound.
C4_AddThenCheck ==
    [][ /\ (/\ last.op = "add"
            /\ last.result.tag = "OK_ADDED"
            /\ last'.op = "check"
            /\ last'.phone = last.phone)
           => /\ last'.result.tag = "FOUND"
              /\ last'.result.phone = last.phone
              /\ last'.result.name = last.name
              /\ last'.result.source = last.source
              /\ last'.result.status = "contacted"
        /\ (last'.op = "check" /\ PlacesOf(Records, last'.phone) = {})
           => last'.result = NotFound(last'.phone) ]_vars

\* a check that finds an untouched record under the spelling it was added with
C4_Witness ==
    /\ last.op = "check"
    /\ last.phone = Dashed
    /\ last.result.tag = "FOUND"
    /\ last.result.phone = Dashed
    /\ last.result.name = "Joe's Pizza"
    /\ last.result.source = "maps"
    /\ last.result.status = "contacted"

\* C5: an update of an existing record overwrites status exactly when a
\* non-empty status is supplied and notes exactly when non-empty notes are
\* supplied, and returns the record's status after the update; an update of a
\* phone no record has returns NotFound and leaves the file as it was.
C5_PartialUpdate ==
    [][ last'.op = "update" =>
          LET P == PlacesOf(Records, last'.phone)
          IN  IF P = {}
              THEN /\ last'.result = NotFound(last'.phone)
                   /\ store' = store
              ELSE \A i \in P :
                     LET old == Records[i].d
                         new == store'.items[i].d
                     IN  /\ new.status = IF last'.status # "" THEN last'.status
                                         ELSE old.status
                         /\ new.notes = IF last'.notes # "" THEN last'.notes
                                        ELSE old.notes
                         /\ last'.result = Updated(last'.phone, new.status) ]_vars

\* an update with notes alone, of a record whose status was "responded"
C5_Witness ==
    /\ last.op = "update"
    /\ last.status = ""
    /\ last.notes = "called back"
    /\ last.result.tag = "OK_UPDATED"
    /\ last.result.status = "responded"
    /\ \E i \in PlacesOf(Records, last.phone) :
          /\ Records[i].d.status = "responded"
          /\ Records[i].d.notes = "called back"

\* C6, its parts.  No record's date_updated ever decreases.
DateUpdatedMonotone ==
    \A i \in 1..Len(Records) :
        /\ i <= Len(store'.items)
        /\ store'.items[i].d.date_updated >= Records[i].d.date_updated

\* A successful update sets the record's date_updated to the clock's reading
\* at the update, which is no earlier than any reading before it.
DateUpdatedRefreshed ==
    (last'.op = "update" /\ last'.result.tag = "OK_UPDATED")
       => /\ clock' >= clock
          /\ \A i \in PlacesOf(Records, last'.phone) :
                store'.items[i].d.date_updated = clock'

\* After update(phone, status="responded") a check of the phone shows it.
RespondedShown ==
    (/\ last.op = "update"
     /\ last.status = "responded"
     /\ last.result.tag = "OK_UPDATED"
     /\ last'.op = "check"
     /\ last'.phone = last.phone)
       => last'.result.tag = "FOUND" /\ last'.result.status = "responded"

JustResponded ==
    /\ last.op = "update"
    /\ last.status = "responded"
    /\ last.result.tag = "OK_UPDATED"

\* C6 as stated: date_updated never decreases and is refreshed by every
\* successful update; after update(phone, status="responded") check shows
\* "responded" and date_updated is strictly later than date_added.
C6_StrictlyLater ==
    [][ /\ DateUpdatedMonotone
        /\ DateUpdatedRefreshed
        /\ RespondedShown
        /\ JustResponded' =>
             \A i \in PlacesOf(store'.items, last'.phone) :
                 /\ store'.items[i].d.status = "responded"
                 /\ store'.items[i].d.date_updated > store'.items[i].d.date_added
      ]_vars

\* C6 as amended: the same, with date_updated no earlier than date_added.
C6_NotEarlier ==
    [][ /\ DateUpdatedMonotone
        /\ DateUpdatedRefreshed
        /\ RespondedShown
        /\ JustResponded' =>
             \A i \in PlacesOf(store'.items, last'.phone) :
                 /\ store'.items[i].d.status = "responded"
                 /\ store'.items[i].d.date_updated >= store'.items[i].d.date_added
      ]_vars

\* an update to "responded" at a reading later than the record's date_added
C6_Witness ==
    /\ JustResponded
    /\ \E i \in PlacesOf(Records, last.phone) :
          /\ Records[i].d.status = "responded"
          /\ Records[i].d.date_updated = clock
          /\ Records[i].d.date_updated > Records[i].d.date_added

\* what the file holds once loaded, for a file whose load returns a list
Loaded == Load(store).value.items

\* every element of the loaded list is a dict that has a phone
Listable ==
    /\ ~Load(store).raised
    /\ Load(store).value.kind = "list"
    /\ \A i \in 1..Len(Loaded) : Has(Loaded[i], "phone")

\* the place in the ledger of the k-th record among those at the places S
Nth(S, k) == CHOOSE i \in S : Cardinality({ j \in S : j <= i }) = k

\* C7: list with a non-empty filter returns exactly the records whose status
\* is the filter, each once and in their order in the ledger; with no filter
\* it returns every record in that order; when there is none to return it
\* answers "no leads", not an error.
C7_ListFilter ==
    (last.op = "list" /\ Listable) =>
        LET S == { i \in 1..Len(Loaded) :
                     last.status # "" =>
                        /\ "status" \in DOMAIN Loaded[i].d
                        /\ Loaded[i].d.status = last.status }
        IN  IF S = {}
            THEN last.result = NoLeadsFound
            ELSE /\ last.result.tag = "LIST"
                 /\ last.result.total = Cardinality(S)
                 /\ Len(last.result.lines) = Cardinality(S)
                 /\ \A k \in 1..Cardinality(S) :
                      LET l == Loaded[Nth(S, k)]
                          line == last.result.lines[k]
                      IN  /\ line.phone = l.d.phone
                          /\ \A f \in {"name", "status", "source", "date_added"} :
                                f \in DOMAIN l.d => line[f] = l.d[f]

\* a filtered listing that returns the second of two records and not the first
C7_Witness ==
    /\ last.op = "list"
    /\ last.status = "responded"
    /\ Len(Records) = 2
    /\ StatusIs(Records[1], "contacted")
    /\ StatusIs(Records[2], "responded")
    /\ last.result.tag = "LIST"
    /\ last.result.total = 1
    /\ last.result.lines[1].phone = Records[2].d.phone

RECURSIVE SumOf(_, _)
SumOf(f, S) ==
    IF S = {} THEN 0
    ELSE LET x == CHOOSE y \in S : TRUE IN f[x] + SumOf(f, S \ {x})

Total(f) == SumOf(f, DOMAIN f)

\* the number of loaded records whose field k is x ("unknown" when it lacks k)
Having(k, x) ==
    Cardinality({ i \in 1..Len(Loaded) :
                    IF k \in DOMAIN Loaded[i].d THEN Loaded[i].d[k] = x
                    ELSE x = "unknown" })

\* C8: stats reports the number of records as the total; the counts by
\* status and the counts by source each sum to it, every record counted once
\* in each, under "unknown" when it lacks the field.  Of an empty ledger it
\* reports that there are no leads yet.
C8_StatsSum ==
    (/\ last.op = "stats"
     /\ ~Load(store).raised
     /\ \A i \in 1..Len(Loaded) : IsDict(Loaded[i]))
       => IF Loaded = <<>>
          THEN last.result = NoLeadsYet
          ELSE /\ last.result.tag = "STATS"
               /\ last.result.total = Len(Loaded)
               /\ Total(last.result.by_status) = Len(Loaded)
               /\ Total(last.result.by_source) = Len(Loaded)
               /\ \A x \in DOMAIN last.result.by_status :
                     last.result.by_status[x] = Having("status", x)
               /\ \A x \in DOMAIN last.result.by_source :
                     last.result.by_source[x] = Having("source", x)

\* statistics of two records, one of which has neither status nor source
C8_Witness ==
    /\ last.op = "stats"
    /\ last.result.tag = "STATS"
    /\ last.result.total = 2
    /\ "unknown" \in DOMAIN last.result.by_status
    /\ "unknown" \in DOMAIN last.result.by_source
    /\ DOMAIN last.result.by_source = {"unknown", "reddit"}

\* the file is missing, unreadable, or holds what cannot be decoded or parsed
Broken(s) == s.kind \in {"absent", "unreadable", "badjson", "badutf8"}

\* C9: when the file is missing, unreadable or malformed the ledger behaves
\* as if it were empty: check and update return NotFound, list and stats
\* their empty result, and the next add returns Added and leaves a
\* well-formed collection holding exactly the new record.
C9_BrokenAsEmpty ==
    [][ Broken(store) =>
          /\ last'.op \in {"check", "update"} => last'.result = NotFound(last'.phone)
          /\ last'.op = "list" => last'.result = NoLeadsFound
          /\ last'.op = "stats" => last'.result = NoLeadsYet
          /\ last'.op \in {"check", "update", "list", "stats"} => store' = store
          /\ last'.op = "add" =>
                /\ last'.result = Added(last'.phone, last'.name, last'.source)
                /\ store'.kind = "list"
                /\ Len(store'.items) = 1
                /\ store'.items[1].d.phone = last'.phone ]_vars

\* the same, of the failures _load catches: a missing file, a read that
\* raises OSError, and text that is not JSON
C9_CaughtAsEmpty ==
    [][ (Broken(store) /\ store.kind # "badutf8") =>
          /\ last'.op \in {"check", "update"} => last'.result = NotFound(last'.phone)
          /\ last'.op = "list" => last'.result = NoLeadsFound
          /\ last'.op = "stats" => last'.result = NoLeadsYet
          /\ last'.op \in {"check", "update", "list", "stats"} => store' = store
          /\ last'.op = "add" =>
                /\ last'.result = Added(last'.phone, last'.name, last'.source)
                /\ store'.kind = "list"
                /\ Len(store'.items) = 1
                /\ store'.items[1].d.phone = last'.phone ]_vars

\* C10: every ledger call returns one of its outcomes, whatever the file
\* holds and whatever its arguments: none raises to the caller.
C10_NeverRaises == last.result.tag # "RAISE"

\* the same, of a file that can be decoded (so of what _load returns)
C10_NeverRaisesDecodable ==
    [][ store.kind # "badutf8" => last'.result.tag # "RAISE" ]_vars

----------------------------------------------------------------------------
(* SendWhatsAppTool.execute, step by step.                                 *)
(*                                                                         *)
(* A step is the code between two points where the call can be held up by  *)
(* what is outside it: the import, the connection attempt, the send, the   *)
(* wait for the reply.  `attempt.pc` names the call in progress.           *)

WaitTimeout == 15      \* asyncio.wait_for(ws.recv(), timeout=15.0), seconds

\* no phone; 6, 7, 7, 15, 15 and 16 digits
DispatchPhones ==
    { NoPhone, Rep("1", MinDigits - 1), Plain, Plus, Rep("1", MaxDigits),
      <<"+">> \o Rep("1", MaxDigits), Rep("1", MaxDigits + 1) }

DispatchMessages == Messages \cup {""}

\* what the bridge can put on the wire
WireReplies == { r \in Replies : r.kind \in {"json", "garbage"} }

\* what ends a wait without a message: the timeout, or recv raising
Event(kind) == [kind |-> kind, type |-> "", has_error |-> FALSE, error |-> ""]

\* a variant that also rejects a phone of exactly 7 digits
ValidationErrorLoose(phone, message) ==
    IF phone = <<>> \/ message = ""
    THEN [tag |-> "ERROR_REQUIRED"]
    ELSE IF Len(DispatchDigits(phone)) <= MinDigits
            \/ Len(DispatchDigits(phone)) > MaxDigits
    THEN [tag |-> "ERROR_INVALID_PHONE", phone |-> phone]
    ELSE NoResult

\* lines 53-58: the status line of a rejected call, NoResult for a valid one
ValidationError(phone, message) ==
    IF phone = <<>> \/ message = ""
    THEN [tag |-> "ERROR_REQUIRED"]
    ELSE IF Len(DispatchDigits(phone)) < MinDigits
            \/ Len(DispatchDigits(phone)) > MaxDigits
    THEN [tag |-> "ERROR_INVALID_PHONE", phone |-> phone]
    ELSE NoResult

\* lines 63-65
NoWebsockets == [tag |-> "ERROR_NO_WEBSOCKETS"]

\* a variant whose diagnostic leaves the address out
ConnectFailedNoUrl == [tag |-> "CONNECT_FAILED", url |-> ""]

\* lines 91-95
ConnectFailed == [tag |-> "CONNECT_FAILED", url |-> BridgeUrl]

\* a variant that drops the exception's text
GenericErrorBare(e) == [tag |-> "ERROR", detail |-> ""]

\* lines 96-97: f"Error sending WhatsApp message: {e}"
GenericError(e) == [tag |-> "ERROR", detail |-> e]

\* a variant that opens the connection without a context manager
ReturnLeaky(a, r) == [a EXCEPT !.pc = "done", !.result = r]

\* `return` from execute: leaving the `async with` block of line 68, by a
\* return or by an exception, closes the connection it opened
Return(a, r) ==
    [a EXCEPT !.pc = "done", !.result = r,
              !.conn = IF @ = "open" THEN "closed" ELSE @]

WithFault(a, e) == [a EXCEPT !.fault = e]

Start ==
    /\ attempt.pc \in {"idle", "done"}
    /\ \E phone \in DispatchPhones, message \in DispatchMessages :
         attempt' = NewAttempt(phone, message)
    /\ UNCHANGED <<store, clock, last, outbox, campaign, race>>

\* lines 53-60
Validate ==
    /\ attempt.pc = "validating"
    /\ LET e == ValidationError(attempt.phone, attempt.message)
       IN  attempt' = IF e.tag # "NONE"
                      THEN Return(attempt, e)
                      ELSE [attempt EXCEPT !.pc = "importing"]
    /\ UNCHANGED <<store, clock, last, outbox, campaign, race>>

\* lines 62-68: the import succeeds and the connection attempt begins
ImportOk ==
    /\ attempt.pc = "importing"
    /\ attempt' = [attempt EXCEPT !.pc = "connecting", !.connects = @ + 1]
    /\ UNCHANGED <<store, clock, last, outbox, campaign, race>>

ImportFails ==
    /\ attempt.pc = "importing"
    /\ attempt' = Return(attempt, NoWebsockets)
    /\ UNCHANGED <<store, clock, last, outbox, campaign, race>>

\* lines 68-74: the connection is open and the send begins
ConnectOk ==
    /\ attempt.pc = "connecting"
    /\ attempt' = [attempt EXCEPT !.pc = "sending", !.conn = "open",
                                  !.sends = @ + 1]
    /\ UNCHANGED <<store, clock, last, outbox, campaign, race>>

ConnectRefused ==
    /\ attempt.pc = "connecting"
    /\ attempt' = Return(WithFault(attempt, "refused"), ConnectFailed)
    /\ UNCHANGED <<store, clock, last, outbox, campaign, race>>

ConnectFails ==
    /\ attempt.pc = "connecting"
    /\ attempt' = Return(WithFault(attempt, "connect"), GenericError("connect"))
    /\ UNCHANGED <<store, clock, last, outbox, campaign, race>>

\* lines 74-78: the request has gone out and the wait for the reply begins
SendOk ==
    /\ attempt.pc = "sending"
    /\ attempt' =
         [attempt EXCEPT !.pc = "awaiting", !.recvs = @ + 1, !.timer = 0,
            !.sent = @ \o <<SendRequest(PhoneToJid(attempt.phone),
                                        attempt.message)>>]
    /\ UNCHANGED <<store, clock, last, outbox, campaign, race>>

\* a variant that connects again when the send raises
SendFailsRetry ==
    /\ attempt.pc = "sending"
    /\ attempt' = [WithFault(attempt, "send") EXCEPT
                     !.pc = "connecting", !.conn = "closed", !.connects = @ + 1]
    /\ UNCHANGED <<store, clock, last, outbox, campaign, race>>

\* lines 74, 96-97: ws.send raises
SendFails ==
    /\ attempt.pc = "sending"
    /\ attempt' = Return(WithFault(attempt, "send"), GenericError("send"))
    /\ UNCHANGED <<store, clock, last, outbox, campaign, race>>

\* the bridge's message reaches the open connection
Arrive ==
    /\ attempt.pc = "awaiting"
    /\ attempt.inbound = NoReply
    /\ \E r \in WireReplies : attempt' = [attempt EXCEPT !.inbound = r]
    /\ UNCHANGED <<store, clock, last, outbox, campaign, race>>

\* lines 78-87, and 96-97 for a message json.loads rejects
Receive ==
    /\ attempt.pc = "awaiting"
    /\ attempt.inbound # NoReply
    /\ LET r == attempt.inbound
           a == [attempt EXCEPT !.received = r, !.inbound = NoReply,
                   !.fault = IF r.kind = "garbage" THEN r.kind ELSE @]
       IN  attempt' = Return(a, Confirmation(attempt.phone,
                                             PhoneToJid(attempt.phone), r))
    /\ UNCHANGED <<store, clock, last, outbox, campaign, race>>

\* recv raises: the bridge closed the connection
RecvFails ==
    /\ attempt.pc = "awaiting"
    /\ attempt.inbound = NoReply
    /\ attempt' = Return(WithFault(attempt, "closed"),
                         Confirmation(attempt.phone, PhoneToJid(attempt.phone),
                                      Event("closed")))
    /\ UNCHANGED <<store, clock, last, outbox, campaign, race>>

\* a second of the wait passes with nothing to read
Tick ==
    /\ attempt.pc = "awaiting"
    /\ attempt.inbound = NoReply
    /\ attempt.timer < WaitTimeout
    /\ attempt' = [attempt EXCEPT !.timer = @ + 1]
    /\ UNCHANGED <<store, clock, last, outbox, campaign, race>>

\* a variant that waits for the reply without a timeout
ExpiredNever(a) == FALSE

\* a variant that gives up a second early
ExpiredEarly(a) == a.timer >= WaitTimeout - 1

Expired(a) == a.timer >= WaitTimeout

\* lines 88-89
TimeoutFires ==
    /\ attempt.pc = "awaiting"
    /\ attempt.inbound = NoReply
    /\ Expired(attempt)
    /\ attempt' = Return(attempt,
                         Confirmation(attempt.phone, PhoneToJid(attempt.phone),
                                      Event("timeout")))
    /\ UNCHANGED <<store, clock, last, outbox, campaign, race>>

\* the bridge answers a request whose sender has already returned
LateArrive ==
    /\ attempt.pc = "done"
    /\ attempt.sent # <<>>
    /\ attempt.inbound = NoReply
    /\ \E r \in WireReplies : attempt' = [attempt EXCEPT !.inbound = r]
    /\ UNCHANGED <<store, clock, last, outbox, campaign, race>>

DispatchNext ==
    \/ Start \/ Validate \/ ImportOk \/ ImportFails
    \/ ConnectOk \/ ConnectRefused \/ ConnectFails
    \/ SendOk \/ SendFails
    \/ Arrive \/ Receive \/ RecvFails \/ Tick \/ TimeoutFires \/ LateArrive

InitDispatch == Fresh(Absent)

SpecDispatch == InitDispatch /\ [][DispatchNext]_vars

\* The event loop runs a coroutine that can run, the transport ends a
\* connection attempt and a send one way or the other, and the clock of
\* wait_for advances.  Nothing obliges the bridge to answer.
DispatchFairness ==
    /\ WF_vars(Validate)
    /\ WF_vars(ImportOk \/ ImportFails)
    /\ WF_vars(ConnectOk \/ ConnectRefused \/ ConnectFails)
    /\ WF_vars(SendOk \/ SendFails)
    /\ WF_vars(Receive)
    /\ WF_vars(Tick)
    /\ WF_vars(TimeoutFires)

SpecDispatchFair == InitDispatch /\ [][DispatchNext]_vars /\ DispatchFairness

----------------------------------------------------------------------------
(* Properties of the dispatch attempt.                                     *)

Digits == Len(DigitsOf(attempt.phone))

HasReturned == attempt.pc = "done"

Rejected == attempt.result.tag \in {"ERROR_REQUIRED", "ERROR_INVALID_PHONE"}

BadInput ==
    \/ attempt.phone = <<>>
    \/ attempt.message = ""
    \/ Digits < MinDigits
    \/ Digits > MaxDigits

ValidationIff ==
    /\ HasReturned => (Rejected <=> BadInput)
    /\ HasReturned /\ attempt.phone # <<>> /\ attempt.message # ""
         /\ Digits \in {MinDigits - 1, MaxDigits + 1} => Rejected

AtBounds == attempt.message # "" /\ Digits \in {MinDigits, MaxDigits}

\* C11, as stated: the call returns a validation error exactly when the
\* phone is empty, the message is empty, or the phone has fewer than 7 or
\* more than 15 digits; 6 and 16 digits are rejected, and a call with 7 or
\* 15 digits goes on to connect.
C11_BoundsConnect ==
    /\ ValidationIff
    /\ AtBounds /\ HasReturned => attempt.connects = 1

\* C11, amended: the same, except that a call with 7 or 15 digits goes on to
\* connect only when the websockets package imports; when it does not, the
\* call returns the package-required error without connecting.
C11_BoundsPass ==
    /\ ValidationIff
    /\ AtBounds /\ attempt.pc \notin {"idle", "validating"} => ~Rejected
    /\ AtBounds /\ HasReturned =>
         IF attempt.result = NoWebsockets
         THEN attempt.connects = 0
         ELSE attempt.connects = 1

C11_Witness ==
    /\ HasReturned
    /\ Digits = MaxDigits
    /\ attempt.message # ""
    /\ attempt.connects = 1
    /\ attempt.result.tag = "OK_SENT"

Confirmed == {"OK_SENT", "OK_DISPATCHED"}

Read == attempt.received

\* C12: a message read before the timeout decides the outcome by its type:
\* "sent" confirms, "error" is a bridge error carrying the bridge's reason
\* or "unknown", any other type confirms; a wait that ends with no message
\* and no failure is the timeout warning.
C12_ReplyDecides ==
    /\ HasReturned /\ Read.kind = "json" =>
         /\ attempt.timer <= WaitTimeout
         /\ Read.type = "sent" => attempt.result.tag = "OK_SENT"
         /\ Read.type = "error" =>
              attempt.result =
                [tag |-> "BRIDGE_ERROR",
                 reason |-> IF Read.has_error THEN Read.error ELSE "unknown"]
         /\ Read.type \notin {"sent", "error"} => attempt.result.tag \in Confirmed
    /\ HasReturned /\ attempt.recvs = 1 /\ Read = NoReply /\ attempt.fault = "" =>
         attempt.result.tag = "WARNING_TIMEOUT"

C12_Witness ==
    /\ HasReturned
    /\ Read.kind = "json"
    /\ Read.type = "status"
    /\ attempt.result.tag = "OK_DISPATCHED"

\* the request went out and the wait ended with nothing read and no failure
TimedOut ==
    /\ HasReturned
    /\ attempt.sent # <<>>
    /\ Read = NoReply
    /\ attempt.fault = ""

\* C13: a call whose request was sent and that read no reply in the 15
\* seconds returns the timeout warning, at 15 seconds, which is neither a
\* confirmation nor a bridge error nor a failure; a reply that arrives after
\* that leaves what the call returned as it was.
C13_TimeoutWarning ==
    [][ /\ TimedOut' =>
             /\ attempt'.result = [tag |-> "WARNING_TIMEOUT"]
             /\ attempt'.timer = WaitTimeout
             /\ attempt'.result.tag \notin
                  Confirmed \cup {"BRIDGE_ERROR", "ERROR", "CONNECT_FAILED"}
        /\ TimedOut /\ HasReturned' => attempt'.result = attempt.result ]_vars

C13_Witness ==
    /\ TimedOut
    /\ attempt.inbound.kind = "json"
    /\ attempt.inbound.type = "sent"
    /\ attempt.result.tag = "WARNING_TIMEOUT"

\* C14: a call that has returned holds no open connection, whichever way it
\* returned; a connection is open only between connect and return.
C14_ConnectionReleased ==
    /\ HasReturned => attempt.conn # "open"
    /\ HasReturned /\ attempt.sends = 1 => attempt.conn = "closed"
    /\ attempt.conn = "open" => attempt.pc \in {"sending", "awaiting"}

C14_Witness ==
    /\ HasReturned
    /\ attempt.fault = "closed"
    /\ attempt.conn = "closed"

\* C15: a refused connection ends the call with the connect-failed
\* diagnostic naming the bridge's address, with nothing sent and no reply
\* awaited.
C15_Refused ==
    HasReturned /\ attempt.fault = "refused" =>
        /\ attempt.result = [tag |-> "CONNECT_FAILED", url |-> BridgeUrl]
        /\ attempt.connects = 1
        /\ attempt.sends = 0
        /\ attempt.sent = <<>>
        /\ attempt.recvs = 0

C15_Witness ==
    /\ HasReturned
    /\ attempt.fault = "refused"
    /\ attempt.result.tag = "CONNECT_FAILED"

Stages ==
    <<"idle", "validating", "importing", "connecting", "sending", "awaiting",
      "done">>

StageOf(pc) == CHOOSE i \in 1..Len(Stages) : Stages[i] = pc

OneOfEach ==
    /\ attempt.connects <= 1
    /\ attempt.sends <= 1
    /\ Len(attempt.sent) <= 1
    /\ attempt.recvs <= 1
    /\ attempt.connects = 1 => ~BadInput
    /\ attempt.sends = 1 => attempt.connects = 1 /\ attempt.conn # "none"
    /\ attempt.recvs = 1 => Len(attempt.sent) = 1
    /\ Rejected =>
         /\ attempt.connects = 0
         /\ attempt.sends = 0
         /\ attempt.recvs = 0
         /\ attempt.conn = "none"

\* C16: a call moves forward only, through validating, connecting, sending
\* and awaiting; it connects at most once and only with valid arguments,
\* sends at most once and only on an opened connection, waits for at most
\* one reply and only after the send; a rejected call does nothing on the
\* network.
C16_LinearOrder ==
    [][ /\ OneOfEach'
        /\ attempt'.pc # "validating" =>
             StageOf(attempt'.pc) >= StageOf(attempt.pc) ]_vars

C16_Witness ==
    /\ HasReturned
    /\ attempt.connects = 1
    /\ attempt.sends = 1
    /\ attempt.recvs = 1
    /\ attempt.result.tag = "BRIDGE_ERROR"

TransportFaults == {"connect", "send", "closed", "garbage"}

\* C20: a call that met a failure of the transport other than a refusal, or
\* read a reply that is not a structured message, returns the generic error
\* with that failure's text, never a confirmation or the timeout warning.
C20_GenericError ==
    HasReturned /\ attempt.fault \in TransportFaults =>
        /\ attempt.result = [tag |-> "ERROR", detail |-> attempt.fault]
        /\ attempt.result.tag \notin Confirmed \cup {"WARNING_TIMEOUT"}

C20_Witness ==
    /\ HasReturned
    /\ attempt.received.kind = "garbage"
    /\ attempt.result.tag = "ERROR"

Outcomes ==
    {"ERROR_REQUIRED", "ERROR_INVALID_PHONE", "OK_SENT", "OK_DISPATCHED",
     "WARNING_TIMEOUT", "BRIDGE_ERROR", "CONNECT_FAILED", "ERROR",
     "ERROR_NO_WEBSOCKETS"}

InProgress == attempt.pc \notin {"idle", "done"}

\* C19: every call returns, with one of the status lines and only one: it
\* has none before it returns and keeps the one it returned.  Time passes
\* for the call only while it waits for the reply, never past 15 seconds,
\* and from there it returns whether or not the bridge answers.
C19_Terminates ==
    /\ [](HasReturned <=> attempt.result.tag # "NONE")
    /\ [](HasReturned => attempt.result.tag \in Outcomes)
    /\ [](attempt.timer <= WaitTimeout)
    /\ [](attempt.timer > 0 => attempt.recvs = 1)
    /\ [][HasReturned /\ HasReturned' => attempt'.result = attempt.result]_vars
    /\ [](InProgress => <>HasReturned)

C19_Witness ==
    /\ HasReturned
    /\ attempt.sent # <<>>
    /\ attempt.inbound = NoReply
    /\ attempt.timer = WaitTimeout
    /\ attempt.result.tag = "WARNING_TIMEOUT"

----------------------------------------------------------------------------
(* The ledger as an append-only log of identities.                         *)

IdentityKeys ==
    {"phone", "phone_normalized", "name", "source", "message_type", "date_added"}

Identity(lead) == [k \in IdentityKeys |-> lead.d[k]]

Identities(items) == [i \in 1..Len(items) |-> Identity(items[i])]

IsPrefix(a, b) == Len(a) <= Len(b) /\ SubSeq(b, 1, Len(a)) = a

\* the places where two ledgers of one length differ
Changed(old, new) == { i \in 1..Len(old) : new[i] # old[i] }

\* C17: from an empty or absent store, every call leaves the identities of
\* the records that were there, in their order, as a prefix of the
\* identities afterwards; check, list and stats leave the file as it is, add
\* changes no record that was there and appends at most one, and update
\* changes at most the one record it matched, and of it nothing but status,
\* notes and date_updated.
C17_AppendOnly ==
    [][ /\ IsPrefix(Identities(Records), Identities(store'.items))
        /\ last'.op \in {"check", "list", "stats"} => store' = store
        /\ last'.op = "add" =>
             /\ IsPrefix(Records, store'.items)
             /\ Len(store'.items) <= Len(Records) + 1
        /\ last'.op = "update" =>
             /\ Len(store'.items) = Len(Records)
             /\ Changed(Records, store'.items) \subseteq
                  {FirstStop(Records, KeyOf(last'.phone))}
             /\ \A i \in Changed(Records, store'.items) :
                  DOMAIN store'.items[i].d = DOMAIN Records[i].d ]_vars

\* the second of two records has just been updated, the first is as added
C17_Witness ==
    /\ last.op = "update"
    /\ last.result.tag = "OK_UPDATED"
    /\ Len(Records) = 2
    /\ Records[1].d.status = "contacted"
    /\ Records[2].d.status = "responded"
    /\ Records[2].d.date_updated > Records[2].d.date_added

----------------------------------------------------------------------------
(* Two processes on one file.                                              *)
(*                                                                         *)
(* add_lead and update_lead read the whole file (lines 49 and 89) and, when *)
(* they go through, write the whole file (lines 68 and 99); nothing keeps  *)
(* another process from reading or writing between the two.  Both          *)
(* processes run within one tick of the clock.                             *)

RaceCalls ==
    { Call("add", Plus, "Test Biz", "reddit", "intro", "", "", NoResult),
      Call("add", Plain, "Joe's Pizza", "maps", "followup", "", "", NoResult),
      Call("update", Plus, "", "", "", "responded", "", NoResult),
      Call("update", Plain, "", "", "", "", "called back", NoResult) }

Other(w) == CHOOSE v \in Workers : v # w

\* a variant that keeps the ledger it read for its previous call
ReadCached(w) == race.proc[w].snapshot

\* _load at the head of the call: the file as it is now
ReadFile(w) == store

\* the call run on what the process read
RaceRun(call, snapshot) ==
    IF call.op = "add"
    THEN AddLead(snapshot, clock, call.phone, call.name, call.source,
                 call.message, clock, clock)
    ELSE UpdateLead(snapshot, clock, call.phone, call.status, call.notes, clock)

Mutating == {"OK_ADDED", "OK_UPDATED"}

\* a process starts a call and reads the file; it overlaps the other
\* process's call when that one has read and not yet finished
RaceBegin ==
    /\ \E w \in Workers, c \in RaceCalls :
         /\ race.proc[w].pc = "idle"
         /\ race' =
              [race EXCEPT !.proc =
                 [v \in Workers |->
                    IF v = w
                    THEN [pc |-> "loaded", call |-> c, snapshot |-> ReadFile(w),
                          done |-> NoCall,
                          overlap |-> race.proc[Other(w)].pc = "loaded"]
                    ELSE [race.proc[v] EXCEPT
                            !.overlap = @ \/ race.proc[v].pc = "loaded"]]]
    /\ UNCHANGED <<store, clock, last, outbox, campaign, attempt>>

\* the process finishes its call: the file is written when the call goes
\* through, and left alone when it does not
RaceEnd ==
    /\ \E w \in Workers :
         LET me == race.proc[w]
             out == RaceRun(me.call, me.snapshot)
             saved == out.result.tag \in Mutating
         IN  /\ me.pc = "loaded"
             /\ store' = IF saved THEN out.store ELSE store
             /\ race' =
                  [race EXCEPT
                     !.proc[w] = [me EXCEPT !.pc = "idle",
                                    !.done = [me.call EXCEPT !.result = out.result]],
                     !.writer = IF saved THEN w ELSE @]
    /\ UNCHANGED <<clock, last, outbox, campaign, attempt>>

RaceNext == RaceBegin \/ RaceEnd

SpecRace == InitFresh /\ [][RaceNext]_vars

\* process w writes the file in this step
Saves(w) ==
    /\ race.proc[w].pc = "loaded"
    /\ race'.proc[w].pc = "idle"
    /\ race'.proc[w].done.result.tag \in Mutating

\* what call did is in the ledger items
Present(call, items) ==
    /\ PlacesOf(items, call.phone) # {}
    /\ call.op = "update" =>
         \A i \in PlacesOf(items, call.phone) :
            /\ call.status # "" => items[i].d.status = call.status
            /\ call.notes # "" => items[i].d.notes = call.notes

\* C18: a process that writes the file writes the ledger it read plus its
\* own change, whatever the file holds by then, and is the last writer; when
\* its call overlapped no call of the other process, every record the file
\* held is still there, changed at most in the record the call matched,
\* and the call's own change is there.
C18_LastWriterWins ==
    [][ \A w \in Workers :
          Saves(w) =>
            LET snapshot == race.proc[w].snapshot.items
                call == race'.proc[w].done
            IN  /\ race'.writer = w
                /\ IsPrefix(Identities(snapshot), Identities(store'.items))
                /\ Len(store'.items) <= Len(snapshot) + 1
                /\ Present(call, store'.items)
                /\ ~race.proc[w].overlap =>
                     /\ IsPrefix(Identities(Records), Identities(store'.items))
                     /\ \A i \in 1..Len(Records) :
                          i \notin PlacesOf(Records, call.phone) =>
                             store'.items[i] = Records[i] ]_vars

\* both processes are between calls, one was told "OK: Added", and its
\* record is not in the file the other wrote
C18_Witness ==
    /\ \A w \in Workers : race.proc[w].pc = "idle"
    /\ \E w \in Workers :
         /\ race.proc[w].done.result.tag = "OK_ADDED"
         /\ race.proc[Other(w)].done.result.tag = "OK_ADDED"
         /\ race.writer = Other(w)
         /\ PlacesOf(Records, race.proc[w].done.phone) = {}

\* one was told "OK: Updated", and the file the other wrote shows the
\* record as it was before
C18_Reverted ==
    /\ \A w \in Workers : race.proc[w].pc = "idle"
    /\ \E w \in Workers :
         /\ race.proc[w].done.result.tag = "OK_UPDATED"
         /\ race.proc[w].done.status = "responded"
         /\ race.writer = Other(w)
         /\ \E i \in PlacesOf(Records, race.proc[w].done.phone) :
               Records[i].d.status = "contacted"

====
